---- MODULE Spec2Model ----
(***************************************************************************)
(* Hash-based, duplicate-aware table comparison of DATA_DIFF_SIMPLE:       *)
(*   SnowparkComparer.hash_compare      (src/PYTHON/snowflake_compare.py)  *)
(*   LocalFileComparer.compare / _compare_hash_local          (same file)  *)
(*                                                                         *)
(* A table is a column list plus a sequence of rows (a row is the tuple of *)
(* its values in the table's column order).  hash_compare is modelled one  *)
(* warehouse query per step, so that a concurrent writer can be placed     *)
(* between two queries; the local comparison works on private DataFrames   *)
(* and is one step.                                                        *)
(***************************************************************************)
EXTENDS Integers, Sequences, FiniteSets, TLC

VARIABLES
    cols1,      \* column names of table 1, in table order
    cols2,      \* column names of table 2, in table order
    rows1,      \* rows of table 1, in physical order
    rows2,      \* rows of table 2, in physical order
    pc,         \* position of the running comparison
    hc,         \* local variables of hash_compare
    result,     \* the ComparisonResult returned (NoResult before the return)
    writes,     \* rows written by a concurrent writer during the comparison
    cli,        \* how the command-line process that ran the comparison ended
    batch,      \* a run_batch of BatchComparer or TableCopier and its BatchResult
    yaml,       \* the batch command of run_comparison.py and its counters
    sess,       \* the object that holds a Snowpark session, and the live sessions
    copy        \* one copy_table call: what it found and the statements it issued

\* The state outside the comparison itself.
envVars == <<cli, batch, yaml, sess, copy>>

vars == <<cols1, cols2, rows1, rows2, pc, hc, result, writes, cli, batch, yaml, sess, copy>>

(***************************************************************************)
(* Bounds and input domains                                                *)
(***************************************************************************)
MaxRows == 3        \* rows per table
MaxWrites == 1      \* concurrent writes during one comparison

NULL == <<"NULL">>          \* SQL NULL / pandas missing value
EMPTY == <<>>               \* the empty string
STR_A == <<"a">>            \* the string 'a'
STR_B == <<"b">>            \* the string 'b'
STR_AB == <<"a", "b">>      \* the string 'ab'
NULL_SENTINEL == <<"__NULL__">>   \* the text '__NULL__'

\* Pairs of table schemas the comparison is run on.
SchemaPairs ==
    { <<<<"ID">>, <<"ID">>>>,               \* same schema
      <<<<"ID", "V">>, <<"ID">>>>,          \* table 1 has an extra column
      <<<<"ID">>, <<"V">>>>,                \* no column in common
      <<<<"ID">>, <<"id">>>>,               \* same column, different case
      <<<<"ID", "V">>, <<"V", "ID">>>>,     \* same columns, different order
      <<<<"ID", "V">>, <<"ID", "V">>>> }    \* same two-column schema

\* Rows a table with the given number of columns can hold.
RowDomain(n) ==
    IF n = 1 THEN { <<STR_A>>, <<EMPTY>>, <<NULL>> }
             ELSE { <<STR_A, STR_B>>, <<STR_AB, EMPTY>> }

(***************************************************************************)
(* Helpers on sequences                                                    *)
(***************************************************************************)
Range(s) == { s[i] : i \in 1..Len(s) }

RECURSIVE SumOver(_, _)
\* Sum of f[x] over the finite set S.
SumOver(f, S) ==
    IF S = {} THEN 0
    ELSE LET x == CHOOSE y \in S : TRUE
         IN  f[x] + SumOver(f, S \ {x})

Min(a, b) == IF a < b THEN a ELSE b

\* str.upper() on the column names of the model.
Upper(c) == IF c = "id" THEN "ID" ELSE IF c = "v" THEN "V" ELSE c

\* [c.upper() for c in df.columns]
UpperAll(cs) == [i \in 1..Len(cs) |-> Upper(cs[i])]

\* Index of column c in the column list cs (0 when absent).
IndexOf(cs, c) ==
    IF \E i \in 1..Len(cs) : cs[i] = c
    THEN CHOOSE i \in 1..Len(cs) : cs[i] = c
    ELSE 0

\* Orderings of a finite set of at most two or three elements.
Orderings(S) ==
    { s \in [1..Cardinality(S) -> S] : \A i, j \in 1..Cardinality(S) : i # j => s[i] # s[j] }

(***************************************************************************)
(* Row hashing                                                             *)
(***************************************************************************)
\* COALESCE(CAST("c" AS STRING), '__NULL__')
CoalesceCast(v) == IF v = NULL THEN NULL_SENTINEL ELSE v

RECURSIVE Concat(_)
\* CONCAT(s1, s2, ...): the strings one after the other, nothing in between.
Concat(ss) == IF ss = <<>> THEN <<>> ELSE Head(ss) \o Concat(Tail(ss))

\* SHA2(CONCAT(hash_cols_expr), 256) of one row of a table with columns
\* tcols; SHA-256 is taken to be collision-free, so the digest is the
\* string that is hashed.
SqlRowHash(tcols, row, common_cols) ==
    Concat([i \in 1..Len(common_cols) |->
                CoalesceCast(row[IndexOf(tcols, common_cols[i])])])

\* A quoted identifier "c" resolves only to a column spelled exactly c.
SqlResolves(tcols, common_cols) ==
    \A i \in 1..Len(common_cols) : IndexOf(tcols, common_cols[i]) # 0

\* row_hash of _compare_hash_local: sha256(str(row.to_dict())); the text of
\* the dict lists every column of the DataFrame with its value, in column
\* order.
row_hash(dfcols, row) == [i \in 1..Len(dfcols) |-> <<dfcols[i], row[i]>>]

\* value_counts that groups adjacent rows only: a digest is counted by the
\* length of its first run, as a grouping that expects sorted input does.
value_counts_FirstRun(hashes) ==
    [d \in Range(hashes) |->
        LET first == CHOOSE i \in 1..Len(hashes) :
                        hashes[i] = d /\ \A j \in 1..(i - 1) : hashes[j] # d
        IN  Cardinality({ i \in first..Len(hashes) :
                            \A j \in first..i : hashes[j] = d })]

\* SELECT row_hash, COUNT(*) ... GROUP BY row_hash  /  Series.value_counts():
\* digest -> number of rows with that digest.
value_counts(hashes) ==
    [d \in Range(hashes) |-> Cardinality({ i \in 1..Len(hashes) : hashes[i] = d })]

\* hash_counts.get(h, 0)
Get(counts, h) == IF h \in DOMAIN counts THEN counts[h] ELSE 0

(***************************************************************************)
(* Reconciliation of two digest -> count maps                              *)
(***************************************************************************)
\* SqlMatched with one match per joined digest (the counts are ignored).
SqlMatched_CountDigests(t1_hashes, t2_hashes) ==
    Cardinality(DOMAIN t1_hashes \cap DOMAIN t2_hashes)

\* CTE matched: COALESCE(SUM(LEAST(t1.cnt, t2.cnt)), 0) over the inner join.
SqlMatched(t1_hashes, t2_hashes) ==
    LET joined == DOMAIN t1_hashes \cap DOMAIN t2_hashes
    IN  SumOver([d \in joined |-> Min(t1_hashes[d], t2_hashes[d])], joined)

\* SqlOnlyT1 as a plain set difference: only digests absent from table 2
\* count, excess copies of a shared digest do not.
SqlOnlyT1_SetDifference(t1_hashes, t2_hashes) ==
    SumOver([d \in DOMAIN t1_hashes |->
                IF d \notin DOMAIN t2_hashes THEN t1_hashes[d] ELSE 0],
            DOMAIN t1_hashes)

\* SqlOnlyT1 without the IS NULL branch: a digest absent from table 2 falls
\* through to ELSE 0.
SqlOnlyT1_NoNullBranch(t1_hashes, t2_hashes) ==
    SumOver([d \in DOMAIN t1_hashes |->
                IF d \in DOMAIN t2_hashes /\ t1_hashes[d] > t2_hashes[d]
                THEN t1_hashes[d] - t2_hashes[d]
                ELSE 0],
            DOMAIN t1_hashes)

\* CTE only_t1: the CASE summed over t1_hashes LEFT JOIN t2_hashes.
SqlOnlyT1(t1_hashes, t2_hashes) ==
    SumOver([d \in DOMAIN t1_hashes |->
                IF d \notin DOMAIN t2_hashes THEN t1_hashes[d]
                ELSE IF t1_hashes[d] > t2_hashes[d] THEN t1_hashes[d] - t2_hashes[d]
                ELSE 0],
            DOMAIN t1_hashes)

\* SqlOnlyT2 without the IS NULL branch: a digest absent from table 1 falls
\* through to ELSE 0.
SqlOnlyT2_NoNullBranch(t1_hashes, t2_hashes) ==
    SumOver([d \in DOMAIN t2_hashes |->
                IF d \in DOMAIN t1_hashes /\ t2_hashes[d] > t1_hashes[d]
                THEN t2_hashes[d] - t1_hashes[d]
                ELSE 0],
            DOMAIN t2_hashes)

\* CTE only_t2: the CASE summed over t2_hashes LEFT JOIN t1_hashes.
SqlOnlyT2(t1_hashes, t2_hashes) ==
    SumOver([d \in DOMAIN t2_hashes |->
                IF d \notin DOMAIN t1_hashes THEN t2_hashes[d]
                ELSE IF t2_hashes[d] > t1_hashes[d] THEN t2_hashes[d] - t1_hashes[d]
                ELSE 0],
            DOMAIN t2_hashes)

\* LocalMatched as len(common_hashes).
LocalMatched_CountDigests(hash_counts1, hash_counts2) ==
    Cardinality(DOMAIN hash_counts1 \cap DOMAIN hash_counts2)

\* matched_rows of _compare_hash_local.
LocalMatched(hash_counts1, hash_counts2) ==
    LET common_hashes == DOMAIN hash_counts1 \cap DOMAIN hash_counts2
    IN  SumOver([h \in common_hashes |-> Min(hash_counts1[h], hash_counts2[h])],
                common_hashes)

\* LocalOnlyT1 subtracting the other side's counts without the min.
LocalOnlyT1_NoMin(table1_count, hash_counts1, hash_counts2) ==
    table1_count
      - SumOver([h \in DOMAIN hash_counts1 |-> Get(hash_counts2, h)],
                DOMAIN hash_counts1)

\* rows_only_t1 of _compare_hash_local: table1_count minus the sum of min
\* over the digests of side 1.
LocalOnlyT1(table1_count, hash_counts1, hash_counts2) ==
    table1_count
      - SumOver([h \in DOMAIN hash_counts1 |->
                    Min(Get(hash_counts1, h), Get(hash_counts2, h))],
                DOMAIN hash_counts1)

\* LocalOnlyT2 subtracting the number of common digests instead of the sum
\* of min over them.
LocalOnlyT2_CountDigests(table2_count, hash_counts1, hash_counts2) ==
    table2_count - Cardinality(DOMAIN hash_counts1 \cap DOMAIN hash_counts2)

\* rows_only_t2 of _compare_hash_local: table2_count minus the sum of min
\* over the digests of side 2.
LocalOnlyT2(table2_count, hash_counts1, hash_counts2) ==
    table2_count
      - SumOver([h \in DOMAIN hash_counts2 |->
                    Min(Get(hash_counts1, h), Get(hash_counts2, h))],
                DOMAIN hash_counts2)

\* HashIsIdentical without the two column checks.
HashIsIdentical_NoColumnCheck(table1_count, table2_count, rows_only_t1, rows_only_t2, columns_only_t1, columns_only_t2) ==
    table1_count = table2_count /\ rows_only_t1 = 0 /\ rows_only_t2 = 0

\* is_identical of hash_compare.
HashIsIdentical(table1_count, table2_count, rows_only_t1, rows_only_t2, columns_only_t1, columns_only_t2) ==
    /\ table1_count = table2_count
    /\ rows_only_t1 = 0
    /\ rows_only_t2 = 0
    /\ Len(columns_only_t1) = 0
    /\ Len(columns_only_t2) = 0

\* is_identical of _compare_hash_local.
LocalIsIdentical(table1_count, table2_count, rows_only_t1, rows_only_t2) ==
    table1_count = table2_count /\ rows_only_t1 = 0 /\ rows_only_t2 = 0

\* A percentage of the matched rows over the rows of both tables, without
\* the factor 2 of the source.
MatchPct_NoFactor2(matched_rows, total_rows) ==
    IF total_rows > 0 THEN <<matched_rows * 100, total_rows>> ELSE <<100, 1>>

\* match_pct as an exact fraction <<numerator, denominator>>.
MatchPct(matched_rows, total_rows) ==
    IF total_rows > 0 THEN <<2 * matched_rows * 100, total_rows>> ELSE <<100, 1>>

(***************************************************************************)
(* Records                                                                 *)
(***************************************************************************)
\* Optional values: <<>> is None, <<x>> is x.
None == <<>>
Some(x) == <<x>>

\* ComparisonResult (the fields the comparison sets; error_message "None"
\* is Python's None).
ComparisonResult(mode, t1c, t2c, matched, only1, only2, pct, ident, co1, co2, err, u1, u2) ==
    [ comparison_mode        |-> mode,
      table1_row_count       |-> t1c,
      table2_row_count       |-> t2c,
      matched_rows           |-> matched,
      rows_only_in_table1    |-> only1,
      rows_only_in_table2    |-> only2,
      match_percentage       |-> pct,
      is_identical           |-> ident,
      columns_only_in_table1 |-> co1,
      columns_only_in_table2 |-> co2,
      error_message          |-> err,
      df1_unq_rows           |-> u1,
      df2_unq_rows           |-> u2 ]

\* No comparison has returned yet.
NoResult ==
    ComparisonResult("none", 0, 0, 0, 0, 0, <<0, 1>>, FALSE, <<>>, <<>>, "None", None, None)

\* str(e) of the exception a failing step raises: some text, or the empty
\* string for an exception raised without arguments.
ExceptionMessages == { "exception", "" }

\* The result built by the `except Exception` branch of either comparison.
ErrorResult(mode) ==
    ComparisonResult(mode, 0, 0, 0, 0, 0, <<0, 1>>, FALSE, <<>>, <<>>, "exception", None, None)

\* Local variables of hash_compare before they are assigned.
HcBlank ==
    [ table1_count |-> 0, table2_count |-> 0,
      t1_columns |-> <<>>, t2_columns |-> <<>>,
      columns_only_t1 |-> <<>>, columns_only_t2 |-> <<>>,
      common_cols |-> <<>>,
      matched_rows |-> 0, rows_only_t1 |-> 0, rows_only_t2 |-> 0,
      match_pct |-> <<0, 1>>, is_identical |-> FALSE,
      df1_unq |-> None, df2_unq |-> None ]

(***************************************************************************)
(* Queries of hash_compare                                                 *)
(***************************************************************************)
\* The LIMIT of each of the two sample queries (100 in the source), scaled
\* to the size of the tables of the model.
SAMPLE_LIMIT == 2

\* {c.upper(): c for c in columns}[u]: a later column replaces an earlier
\* one with the same upper-cased name.
ColsUpper(columns, u) ==
    columns[CHOOSE i \in 1..Len(columns) :
                /\ Upper(columns[i]) = u
                /\ \A j \in 1..Len(columns) : Upper(columns[j]) = u => j <= i]

UpperKeys(columns) == { Upper(columns[i]) : i \in 1..Len(columns) }

\* [c for c in columns if c.upper() not in other_cols_upper]
ColumnsOnly(columns, other) ==
    LET Missing(c) == Upper(c) \notin UpperKeys(other)
    IN  SelectSeq(columns, Missing)

\* The common columns taken to be all the columns of table 1.
CommonCols_AllOfTable1(t1_columns, t2_columns) ==
    { t1_columns[i] : i \in 1..Len(t1_columns) }

\* The columns [t1_cols_upper[c] for c in common_upper], as a set: the
\* iteration order of the Python set common_upper is not fixed.
CommonCols(t1_columns, t2_columns) ==
    { ColsUpper(t1_columns, u) : u \in UpperKeys(t1_columns) \cap UpperKeys(t2_columns) }

\* CTE t1_hashes / t2_hashes of hash_comparison_query.
SqlHashes(tcols, rows, common_cols) ==
    value_counts([i \in 1..Len(rows) |-> SqlRowHash(tcols, rows[i], common_cols)])

\* A sample filter that follows the counts: the rows of `rows` whose
\* row_hash has more copies in `rows` than in `others`.
SqlNotExists_ExcessCopies(tcols, rows, ocols, others, common_cols) ==
    LET own == SqlHashes(tcols, rows, common_cols)
        other == SqlHashes(ocols, others, common_cols)
        InExcess(r) ==
            LET h == SqlRowHash(tcols, r, common_cols)
            IN  Get(own, h) > Get(other, h)
    IN  SelectSeq(rows, InExcess)

\* Rows of `rows` for which NOT EXISTS a row of `others` with the same
\* row_hash, in scan order.
SqlNotExists(tcols, rows, ocols, others, common_cols) ==
    LET other_hashes == { SqlRowHash(ocols, others[i], common_cols) : i \in 1..Len(others) }
        Absent(r) == SqlRowHash(tcols, r, common_cols) \notin other_hashes
    IN  SelectSeq(rows, Absent)

RECURSIVE Pick(_, _)
\* The rows of s at the positions in I, in order.
Pick(s, I) ==
    IF s = <<>> THEN <<>>
    ELSE LET rest == Pick(Tail(s), { i - 1 : i \in I \ {1} })
         IN  IF 1 \in I THEN <<Head(s)>> \o rest ELSE rest

\* The sample query without its LIMIT: every row it selects.
Limit_NoLimit(s, n) == { s }

\* LIMIT n without ORDER BY: any n of the rows.
Limit(s, n) ==
    IF Len(s) <= n THEN { s }
    ELSE { Pick(s, I) : I \in { J \in SUBSET (1..Len(s)) : Cardinality(J) = n } }

\* No command-line process has ended.
NoExit == [command |-> "none", outcome |-> "none", exit_code |-> -1]

(***************************************************************************)
(* State machine                                                           *)
(***************************************************************************)
\* No run_batch has been called: a BatchResult() with its defaults.
BatchIdle ==
    [kind |-> "none", pc |-> "idle", continue_on_error |-> TRUE, total_tables |-> 0,
     i |-> 0, successful |-> 0, failed |-> 0, skipped |-> 0, identical |-> 0,
     different |-> 0, results |-> <<>>, exit_code |-> -1]

\* The batch command of run_comparison.py has not run.
YamlIdle ==
    [pc |-> "idle", comparisons |-> 0, i |-> 0, results |-> <<>>, errors |-> 0,
     differences |-> 0, summary |-> FALSE, identical_printed |-> 0, exit_code |-> -1]

\* No comparer or copier has been constructed.
NoObject ==
    [class |-> "none", session |-> 0, created |-> 0, depth |-> 0,
     last |-> "none", before |-> 0, raised |-> FALSE]

\* copy_table has not been called.
CopyIdle ==
    [pc |-> "idle", drop_existing |-> FALSE, use_or_replace |-> TRUE,
     env |-> [connect_ok |-> TRUE, source_ok |-> TRUE, target_there |-> FALSE,
              lookup_ok |-> TRUE, drop_ok |-> TRUE, ctas_ok |-> TRUE],
     statements |-> <<>>, status |-> "pending"]

Init ==
    /\ \E sp \in SchemaPairs : cols1 = sp[1] /\ cols2 = sp[2]
    /\ rows1 = <<>>
    /\ rows2 = <<>>
    /\ pc = "idle"
    /\ hc = HcBlank
    /\ result = NoResult
    /\ writes = 0
    /\ cli = NoExit
    /\ batch = BatchIdle
    /\ yaml = YamlIdle
    /\ sess = NoObject
    /\ copy = CopyIdle

\* The two tables are filled before a comparison is started.
LoadRow1 ==
    /\ pc = "idle"
    /\ Len(rows1) < MaxRows
    /\ \E r \in RowDomain(Len(cols1)) : rows1' = Append(rows1, r)
    /\ UNCHANGED <<cols1, cols2, rows2, pc, hc, result, writes, envVars>>

LoadRow2 ==
    /\ pc = "idle"
    /\ Len(rows2) < MaxRows
    /\ \E r \in RowDomain(Len(cols2)) : rows2' = Append(rows2, r)
    /\ UNCHANGED <<cols1, cols2, rows1, pc, hc, result, writes, envVars>>

\* hash_compare is called: the session is there, the table names are built.
HashCompareStart ==
    /\ pc = "idle"
    /\ pc' = "hc_count1"
    /\ hc' = HcBlank
    /\ UNCHANGED <<cols1, cols2, rows1, rows2, result, writes, envVars>>

\* SELECT COUNT(*) FROM full_table1
HcCount1 ==
    /\ pc = "hc_count1"
    /\ hc' = [hc EXCEPT !.table1_count = Len(rows1)]
    /\ pc' = "hc_count2"
    /\ UNCHANGED <<cols1, cols2, rows1, rows2, result, writes, envVars>>

\* SELECT COUNT(*) FROM full_table2
HcCount2 ==
    /\ pc = "hc_count2"
    /\ hc' = [hc EXCEPT !.table2_count = Len(rows2)]
    /\ pc' = "hc_columns"
    /\ UNCHANGED <<cols1, cols2, rows1, rows2, result, writes, envVars>>

\* get_table_columns for both tables (it returns [] when it cannot read the
\* columns), the common columns, and the early return when there are none.
HcColumns ==
    /\ pc = "hc_columns"
    /\ \E t1_columns \in {cols1, <<>>}, t2_columns \in {cols2, <<>>} :
        LET columns_only_t1 == ColumnsOnly(t1_columns, t2_columns)
            columns_only_t2 == ColumnsOnly(t2_columns, t1_columns)
            common == CommonCols(t1_columns, t2_columns)
        IN  IF common = {}
            THEN /\ result' = ComparisonResult("hash", hc.table1_count, hc.table2_count,
                                  0, hc.table1_count, hc.table2_count, <<0, 1>>, FALSE,
                                  columns_only_t1, columns_only_t2,
                                  "No common columns found between tables", None, None)
                 /\ hc' = [hc EXCEPT !.t1_columns = t1_columns, !.t2_columns = t2_columns,
                                     !.columns_only_t1 = columns_only_t1,
                                     !.columns_only_t2 = columns_only_t2]
                 /\ pc' = "done"
            ELSE /\ \E common_cols \in Orderings(common) :
                        hc' = [hc EXCEPT !.t1_columns = t1_columns, !.t2_columns = t2_columns,
                                         !.columns_only_t1 = columns_only_t1,
                                         !.columns_only_t2 = columns_only_t2,
                                         !.common_cols = common_cols]
                 /\ pc' = "hc_hash"
                 /\ UNCHANGED result
    /\ UNCHANGED <<cols1, cols2, rows1, rows2, writes, envVars>>

\* hash_comparison_query on the tables as they are now, then match_pct and
\* is_identical.  The query names the common columns as table 1 spells
\* them, quoted, in both tables; a name that does not resolve makes the
\* query raise, which the except branch turns into an error result.
HcHashQuery ==
    /\ pc = "hc_hash"
    /\ IF ~ (SqlResolves(cols1, hc.common_cols) /\ SqlResolves(cols2, hc.common_cols))
       THEN /\ result' = [ErrorResult("hash") EXCEPT !.error_message = "invalid identifier"]
            /\ pc' = "done"
            /\ UNCHANGED hc
       ELSE LET t1_hashes == SqlHashes(cols1, rows1, hc.common_cols)
                t2_hashes == SqlHashes(cols2, rows2, hc.common_cols)
                matched_rows == SqlMatched(t1_hashes, t2_hashes)
                rows_only_t1 == SqlOnlyT1(t1_hashes, t2_hashes)
                rows_only_t2 == SqlOnlyT2(t1_hashes, t2_hashes)
                total_rows == hc.table1_count + hc.table2_count
                is_identical == HashIsIdentical(hc.table1_count, hc.table2_count,
                                                rows_only_t1, rows_only_t2,
                                                hc.columns_only_t1, hc.columns_only_t2)
            IN  /\ hc' = [hc EXCEPT !.matched_rows = matched_rows,
                                    !.rows_only_t1 = rows_only_t1,
                                    !.rows_only_t2 = rows_only_t2,
                                    !.match_pct = MatchPct(matched_rows, total_rows),
                                    !.is_identical = is_identical]
                /\ pc' = "hc_sample1"
                /\ UNCHANGED result
    /\ UNCHANGED <<cols1, cols2, rows1, rows2, writes, envVars>>

\* Sample of the rows only in table 1; a failing sample query is logged and
\* leaves df1_unq None.
HcSample1 ==
    /\ pc = "hc_sample1"
    /\ IF hc.rows_only_t1 > 0
       THEN \/ \E sample \in Limit(SqlNotExists(cols1, rows1, cols2, rows2, hc.common_cols),
                                   SAMPLE_LIMIT) :
                    hc' = [hc EXCEPT !.df1_unq = Some(sample)]
            \/ UNCHANGED hc
       ELSE UNCHANGED hc
    /\ pc' = "hc_sample2"
    /\ UNCHANGED <<cols1, cols2, rows1, rows2, result, writes, envVars>>

\* Sample of the rows only in table 2, then the result is built and returned.
HcSample2 ==
    /\ pc = "hc_sample2"
    /\ \E df2_unq \in
            IF hc.rows_only_t2 > 0
            THEN { Some(sample) :
                      sample \in Limit(SqlNotExists(cols2, rows2, cols1, rows1, hc.common_cols),
                                       SAMPLE_LIMIT) } \cup { None }
            ELSE { None } :
        /\ hc' = [hc EXCEPT !.df2_unq = df2_unq]
        /\ result' = ComparisonResult("hash", hc.table1_count, hc.table2_count,
                         hc.matched_rows, hc.rows_only_t1, hc.rows_only_t2,
                         hc.match_pct, hc.is_identical,
                         hc.columns_only_t1, hc.columns_only_t2,
                         "None", hc.df1_unq, df2_unq)
    /\ pc' = "done"
    /\ UNCHANGED <<cols1, cols2, rows1, rows2, writes, envVars>>

\* connect() or one of the COUNT(*) / hash queries raises: the except branch
\* returns the error result.
HcRaise ==
    /\ pc \in {"hc_count1", "hc_count2", "hc_hash"}
    /\ \E e \in ExceptionMessages :
            result' = [ErrorResult("hash") EXCEPT !.error_message = e]
    /\ pc' = "done"
    /\ UNCHANGED <<cols1, cols2, rows1, rows2, hc, writes, envVars>>

\* LocalFileComparer.compare without join columns: the column names are
\* upper-cased and _compare_hash_local hashes every row of both DataFrames.
CompareHashLocal ==
    /\ pc = "idle"
    /\ LET df1_columns == UpperAll(cols1)
           df2_columns == UpperAll(cols2)
           table1_count == Len(rows1)
           table2_count == Len(rows2)
           hash_counts1 == value_counts([i \in 1..Len(rows1) |-> row_hash(df1_columns, rows1[i])])
           hash_counts2 == value_counts([i \in 1..Len(rows2) |-> row_hash(df2_columns, rows2[i])])
           matched_rows == LocalMatched(hash_counts1, hash_counts2)
           rows_only_t1 == LocalOnlyT1(table1_count, hash_counts1, hash_counts2)
           rows_only_t2 == LocalOnlyT2(table2_count, hash_counts1, hash_counts2)
           total_rows == table1_count + table2_count
           is_identical == LocalIsIdentical(table1_count, table2_count, rows_only_t1, rows_only_t2)
       IN  result' = ComparisonResult("local_hash", table1_count, table2_count,
                         matched_rows, rows_only_t1, rows_only_t2,
                         MatchPct(matched_rows, total_rows), is_identical,
                         <<>>, <<>>, "None", None, None)
    /\ pc' = "done"
    /\ UNCHANGED <<cols1, cols2, rows1, rows2, hc, writes, envVars>>

\* _load_file or another step of LocalFileComparer.compare raises: the
\* except branch of compare returns the error result.
LoadFileRaise ==
    /\ pc = "idle"
    /\ \E e \in ExceptionMessages :
            result' = [ErrorResult("local") EXCEPT !.error_message = e]
    /\ pc' = "done"
    /\ UNCHANGED <<cols1, cols2, rows1, rows2, hc, writes, envVars>>

\* A step of _compare_hash_local raises: its except branch returns the
\* error result.
CompareHashLocalRaise ==
    /\ pc = "idle"
    /\ \E e \in ExceptionMessages :
            result' = [ErrorResult("local_hash") EXCEPT !.error_message = e]
    /\ pc' = "done"
    /\ UNCHANGED <<cols1, cols2, rows1, rows2, hc, writes, envVars>>

\* Another session inserts a row into one of the tables while hash_compare
\* is between two of its queries.
InProgress == pc \in {"hc_count1", "hc_count2", "hc_columns", "hc_hash", "hc_sample1", "hc_sample2"}

ExternalInsert ==
    /\ InProgress
    /\ writes < MaxWrites
    /\ writes' = writes + 1
    /\ \/ /\ \E r \in RowDomain(Len(cols1)) : rows1' = Append(rows1, r)
          /\ UNCHANGED rows2
       \/ /\ \E r \in RowDomain(Len(cols2)) : rows2' = Append(rows2, r)
          /\ UNCHANGED rows1
    /\ UNCHANGED <<cols1, cols2, pc, hc, result, envVars>>

\* Another session deletes a row of one of the tables during hash_compare.
ExternalDelete ==
    /\ InProgress
    /\ writes < MaxWrites
    /\ writes' = writes + 1
    /\ \/ /\ rows1 # <<>>
          /\ rows1' = Tail(rows1)
          /\ UNCHANGED rows2
       \/ /\ rows2 # <<>>
          /\ rows2' = Tail(rows2)
          /\ UNCHANGED rows1
    /\ UNCHANGED <<cols1, cols2, pc, hc, result, envVars>>

\* The comparison of two tables nobody else writes to.
Next ==
    \/ LoadRow1
    \/ LoadRow2
    \/ HashCompareStart
    \/ HcCount1
    \/ HcCount2
    \/ HcColumns
    \/ HcHashQuery
    \/ HcSample1
    \/ HcSample2
    \/ HcRaise
    \/ CompareHashLocal
    \/ LoadFileRaise
    \/ CompareHashLocalRaise

Spec == Init /\ [][Next]_vars

\* The same comparison with a concurrent writer on the tables.
NextRace ==
    \/ Next
    \/ ExternalInsert
    \/ ExternalDelete

SpecRace == Init /\ [][NextRace]_vars

(***************************************************************************)
(* Properties                                                              *)
(***************************************************************************)
\* A comparison has returned a result record without error_message.
Returned == pc = "done" /\ result.error_message = "None"

\* The digests of the two sides as the comparison that returned computed
\* them, one per physical row.
DigestsA ==
    IF result.comparison_mode = "hash"
    THEN [i \in 1..Len(rows1) |-> SqlRowHash(cols1, rows1[i], hc.common_cols)]
    ELSE [i \in 1..Len(rows1) |-> row_hash(UpperAll(cols1), rows1[i])]

DigestsB ==
    IF result.comparison_mode = "hash"
    THEN [i \in 1..Len(rows2) |-> SqlRowHash(cols2, rows2[i], hc.common_cols)]
    ELSE [i \in 1..Len(rows2) |-> row_hash(UpperAll(cols2), rows2[i])]

\* count[d]: the number of rows of a side whose digest is d (0 when absent).
CountIn(digests, d) == Cardinality({ i \in 1..Len(digests) : digests[i] = d })

Max(a, b) == IF a > b THEN a ELSE b

\* C1: every result the hash comparison returns on two tables nobody else
\* writes to satisfies matched + only_in_1 = table1_row_count and
\* matched + only_in_2 = table2_row_count.
C1_Conservation ==
    pc = "done" =>
        /\ result.matched_rows + result.rows_only_in_table1 = result.table1_row_count
        /\ result.matched_rows + result.rows_only_in_table2 = result.table2_row_count

\* Both sides hold duplicates and the three counts are all positive.
C1_Witness ==
    /\ Returned
    /\ result.comparison_mode = "hash"
    /\ result.matched_rows >= 1
    /\ result.rows_only_in_table1 >= 2
    /\ result.rows_only_in_table2 >= 1

\* C2: the matched count is the sum, over the digests present on both
\* sides, of min(count_a[d], count_b[d]).
C2_MatchedIsSumOfMin ==
    Returned =>
        LET both == Range(DigestsA) \cap Range(DigestsB)
        IN  result.matched_rows =
                SumOver([d \in both |->
                            IF CountIn(DigestsA, d) <= CountIn(DigestsB, d)
                            THEN CountIn(DigestsA, d) ELSE CountIn(DigestsB, d)],
                        both)

\* A digest is shared with different multiplicities and another digest is
\* on one side only.
C2_Witness ==
    /\ Returned
    /\ result.comparison_mode = "local_hash"
    /\ \E d \in Range(DigestsA) \cap Range(DigestsB) : CountIn(DigestsA, d) > CountIn(DigestsB, d)
    /\ Range(DigestsB) \ Range(DigestsA) # {}
    /\ result.matched_rows >= 1

\* C3: rows_only_in_table1 is the sum over the digests d of side 1 of
\* max(count_a[d] - count_b.get(d, 0), 0), and rows_only_in_table2 the sum
\* over the digests of side 2 of max(count_b[d] - count_a.get(d, 0), 0).
C3_OnlyIsSumOfExcess ==
    Returned =>
        /\ result.rows_only_in_table1 =
                SumOver([d \in Range(DigestsA) |->
                            Max(CountIn(DigestsA, d) - CountIn(DigestsB, d), 0)],
                        Range(DigestsA))
        /\ result.rows_only_in_table2 =
                SumOver([d \in Range(DigestsB) |->
                            Max(CountIn(DigestsB, d) - CountIn(DigestsA, d), 0)],
                        Range(DigestsB))

\* Side 2 has excess copies of a shared digest and side 1 a digest of its own.
C3_Witness ==
    /\ Returned
    /\ result.comparison_mode = "local_hash"
    /\ \E d \in Range(DigestsA) \cap Range(DigestsB) : CountIn(DigestsB, d) > CountIn(DigestsA, d)
    /\ Range(DigestsA) \ Range(DigestsB) # {}
    /\ result.rows_only_in_table1 >= 1
    /\ result.rows_only_in_table2 >= 1

\* Side 1 holds m >= 1 copies and side 2 holds n >= 1 copies of one row R
\* of one schema, and nothing else.
CopiesOfOneRow ==
    /\ UpperAll(cols1) = UpperAll(cols2)
    /\ rows1 # <<>>
    /\ rows2 # <<>>
    /\ \A i \in 1..Len(rows1) : rows1[i] = rows1[1]
    /\ \A i \in 1..Len(rows2) : rows2[i] = rows1[1]

\* C4: with m copies of a row on side 1 and n copies of it on side 2 the
\* comparison reports matched = min(m, n), only_in_1 = max(m - n, 0) and
\* only_in_2 = max(n - m, 0).
C4_DuplicateSensitivity ==
    (Returned /\ CopiesOfOneRow) =>
        /\ result.matched_rows = Min(Len(rows1), Len(rows2))
        /\ result.rows_only_in_table1 = Max(Len(rows1) - Len(rows2), 0)
        /\ result.rows_only_in_table2 = Max(Len(rows2) - Len(rows1), 0)

\* Three copies against one copy: matched 1, only_in_1 2, only_in_2 0.
C4_Witness ==
    /\ Returned
    /\ CopiesOfOneRow
    /\ result.comparison_mode = "hash"
    /\ Len(rows1) = 3
    /\ Len(rows2) = 1
    /\ result.matched_rows = 1
    /\ result.rows_only_in_table1 = 2
    /\ result.rows_only_in_table2 = 0

\* C5 as stated: an error-free result is identical iff the row counts are
\* equal and both only-counts are 0.
C5_IdenticalIffCounts ==
    Returned =>
        (result.is_identical <=>
            /\ result.table1_row_count = result.table2_row_count
            /\ result.rows_only_in_table1 = 0
            /\ result.rows_only_in_table2 = 0)

\* C5 (amended): an error-free result is identical iff the row counts are
\* equal, both only-counts are 0 and the result reports no column as
\* present in only one of the tables.
C5_IdenticalIffCountsAndColumns ==
    Returned =>
        (result.is_identical <=>
            /\ result.table1_row_count = result.table2_row_count
            /\ result.rows_only_in_table1 = 0
            /\ result.rows_only_in_table2 = 0
            /\ result.columns_only_in_table1 = <<>>
            /\ result.columns_only_in_table2 = <<>>)

\* Every row matches, yet table 1 has a column table 2 lacks and the
\* result is not identical.
C5_Witness ==
    /\ Returned
    /\ result.table1_row_count = result.table2_row_count
    /\ result.table1_row_count >= 2
    /\ result.rows_only_in_table1 = 0
    /\ result.rows_only_in_table2 = 0
    /\ result.columns_only_in_table1 # <<>>
    /\ ~ result.is_identical

\* The counts the same comparison computes when the two sides are swapped.
SwappedCounts ==
    LET hash_counts1 == value_counts(DigestsB)
        hash_counts2 == value_counts(DigestsA)
    IN  IF result.comparison_mode = "hash"
        THEN [ matched |-> SqlMatched(hash_counts1, hash_counts2),
               only1   |-> SqlOnlyT1(hash_counts1, hash_counts2),
               only2   |-> SqlOnlyT2(hash_counts1, hash_counts2) ]
        ELSE [ matched |-> LocalMatched(hash_counts1, hash_counts2),
               only1   |-> LocalOnlyT1(Len(rows2), hash_counts1, hash_counts2),
               only2   |-> LocalOnlyT2(Len(rows1), hash_counts1, hash_counts2) ]

\* C6: swapping the two sides swaps the two only-counts and keeps matched.
C6_Symmetry ==
    Returned =>
        /\ result.rows_only_in_table1 = SwappedCounts.only2
        /\ result.rows_only_in_table2 = SwappedCounts.only1
        /\ result.matched_rows = SwappedCounts.matched

\* The two sides differ in size and in content, with a shared digest.
C6_Witness ==
    /\ Returned
    /\ result.comparison_mode = "local_hash"
    /\ result.matched_rows >= 1
    /\ result.rows_only_in_table1 >= 1
    /\ result.rows_only_in_table2 >= 1
    /\ result.rows_only_in_table1 # result.rows_only_in_table2

\* C7: a table compared against itself gives only_in_1 = only_in_2 = 0 and
\* matched = table1_row_count.
C7_IdentityLaw ==
    (Returned /\ cols1 = cols2 /\ rows1 = rows2) =>
        /\ result.rows_only_in_table1 = 0
        /\ result.rows_only_in_table2 = 0
        /\ result.matched_rows = result.table1_row_count
        /\ result.table1_row_count = Len(rows1)

\* The table compared against itself holds a duplicated row and another row.
C7_Witness ==
    /\ Returned
    /\ cols1 = cols2
    /\ rows1 = rows2
    /\ Len(rows1) = 3
    /\ Cardinality(Range(DigestsA)) = 2
    /\ result.matched_rows = 3

\* The two sides share no digest.
Disjoint == Range(DigestsA) \cap Range(DigestsB) = {}

\* C8: when the sides share no digest, matched = 0 and each only-count is
\* the row count of its side.
C8_DisjointSets ==
    (Returned /\ Disjoint) =>
        /\ result.matched_rows = 0
        /\ result.rows_only_in_table1 = result.table1_row_count
        /\ result.rows_only_in_table2 = result.table2_row_count

\* Two non-empty sides without a common digest.
C8_Witness ==
    /\ Returned
    /\ Disjoint
    /\ result.comparison_mode = "hash"
    /\ result.rows_only_in_table1 >= 2
    /\ result.rows_only_in_table2 >= 1

\* The counts hash_compare computed violate one of the two sums.
HcInconsistent ==
    \/ hc.matched_rows + hc.rows_only_t1 # hc.table1_count
    \/ hc.matched_rows + hc.rows_only_t2 # hc.table2_count

\* C9: when the counts computed by the hash comparison violate
\* matched + only_in_1 = total_1 or matched + only_in_2 = total_2, the
\* comparison ends in an error outcome instead of returning them.
C9_SelfVerification ==
    (pc = "done" /\ result.comparison_mode = "hash" /\ HcInconsistent) =>
        result.error_message # "None"

\* The upper-cased column names the two tables share.
CommonUpper == UpperKeys(cols1) \cap UpperKeys(cols2)

\* A row restricted to the common columns: upper-cased name -> value.
ProjectCommon(cols, row) ==
    [u \in CommonUpper |-> row[CHOOSE i \in 1..Len(cols) : Upper(cols[i]) = u]]

\* No step of the comparison raised, and hash_compare read the columns of
\* both tables.
NoUpstreamFailure ==
    /\ result.error_message \notin ExceptionMessages
    /\ result.comparison_mode = "hash" =>
            /\ hc.t1_columns = cols1
            /\ hc.t2_columns = cols2

\* C10: when the column sets differ (and share a column), the comparison
\* returns an error-free result whose matched count pairs the rows that
\* agree on every common column and whose metadata lists the columns
\* present on one side only.
C10_SchemaMismatchNonFatal ==
    (pc = "done" /\ UpperKeys(cols1) # UpperKeys(cols2) /\ CommonUpper # {} /\ NoUpstreamFailure) =>
        LET pa == [i \in 1..Len(rows1) |-> ProjectCommon(cols1, rows1[i])]
            pb == [i \in 1..Len(rows2) |-> ProjectCommon(cols2, rows2[i])]
            both == Range(pa) \cap Range(pb)
        IN  /\ result.error_message = "None"
            /\ result.matched_rows =
                    SumOver([d \in both |-> Min(CountIn(pa, d), CountIn(pb, d))], both)
            /\ result.columns_only_in_table1 = ColumnsOnly(cols1, cols2)
            /\ result.columns_only_in_table2 = ColumnsOnly(cols2, cols1)

(***************************************************************************)
(* Match percentage                                                        *)
(***************************************************************************)

TotalRows == result.table1_row_count + result.table2_row_count

\* match_percentage of the result is the exact value of
\* 2 * matched / (total_a + total_b) * 100.
PctIsTwiceMatchedOverTotal ==
    result.match_percentage[1] * TotalRows
        = 200 * result.matched_rows * result.match_percentage[2]

\* C11 as stated: every result the hash comparison returns has
\* match_percentage = 2 * matched / (total_a + total_b) * 100 when the total
\* is positive, and match_percentage = 100 and is_identical = TRUE when
\* both sides are empty.
C11_MatchPercentage ==
    Returned =>
        /\ TotalRows > 0 => PctIsTwiceMatchedOverTotal
        /\ TotalRows = 0 =>
                /\ result.match_percentage = <<100, 1>>
                /\ result.is_identical

\* C11 amended: as above, but on two empty sides is_identical is TRUE
\* exactly when the result lists no column of one table only.
C11_MatchPercentageColumns ==
    Returned =>
        /\ TotalRows > 0 => PctIsTwiceMatchedOverTotal
        /\ TotalRows = 0 =>
                /\ result.match_percentage = <<100, 1>>
                /\ result.is_identical <=>
                        /\ result.columns_only_in_table1 = <<>>
                        /\ result.columns_only_in_table2 = <<>>

\* Three rows against one, one of them matched: 2 * 1 / 4 * 100 = 50.
C11_Witness ==
    /\ Returned
    /\ result.table1_row_count = 3
    /\ result.table2_row_count = 1
    /\ result.matched_rows = 1
    /\ result.match_percentage = <<200, 4>>

(***************************************************************************)
(* Digests and participating values                                        *)
(***************************************************************************)

\* Row i of table1 and row j of table2 carry the same values in the common
\* columns.
SameParticipatingValues(i, j) ==
    ProjectCommon(cols1, rows1[i]) = ProjectCommon(cols2, rows2[j])

\* C12: in every result the hash comparison returns, two rows that differ
\* in the value of a participating column have different digests, and when
\* no row of table1 equals a row of table2 on the participating columns no
\* row is counted as matched.
C12_DigestInjectivity ==
    (Returned /\ CommonUpper # {}) =>
        /\ \A i \in 1..Len(rows1), j \in 1..Len(rows2) :
                ~SameParticipatingValues(i, j) => DigestsA[i] # DigestsB[j]
        /\ (\A i \in 1..Len(rows1), j \in 1..Len(rows2) : ~SameParticipatingValues(i, j))
                => result.matched_rows = 0

(***************************************************************************)
(* The counts of a comparison as a function of its inputs                  *)
(***************************************************************************)

\* The counts a result carries.
ResultCounts ==
    [table1_row_count |-> result.table1_row_count,
     table2_row_count |-> result.table2_row_count,
     matched_rows |-> result.matched_rows,
     rows_only_in_table1 |-> result.rows_only_in_table1,
     rows_only_in_table2 |-> result.rows_only_in_table2,
     match_percentage |-> result.match_percentage,
     is_identical |-> result.is_identical]

\* The counts hash_compare computes on tables holding the rows r1 and r2,
\* with the common columns in the order common_cols.
HashCompareCounts(r1, r2, common_cols) ==
    LET table1_count == Len(r1)
        table2_count == Len(r2)
        t1_hashes == SqlHashes(cols1, r1, common_cols)
        t2_hashes == SqlHashes(cols2, r2, common_cols)
        matched_rows == SqlMatched(t1_hashes, t2_hashes)
        rows_only_t1 == SqlOnlyT1(t1_hashes, t2_hashes)
        rows_only_t2 == SqlOnlyT2(t1_hashes, t2_hashes)
    IN  [table1_row_count |-> table1_count,
         table2_row_count |-> table2_count,
         matched_rows |-> matched_rows,
         rows_only_in_table1 |-> rows_only_t1,
         rows_only_in_table2 |-> rows_only_t2,
         match_percentage |-> MatchPct(matched_rows, table1_count + table2_count),
         is_identical |-> HashIsIdentical(table1_count, table2_count,
                                          rows_only_t1, rows_only_t2,
                                          ColumnsOnly(cols1, cols2),
                                          ColumnsOnly(cols2, cols1))]

\* The counts _compare_hash_local computes on DataFrames holding the rows
\* r1 and r2.
LocalCompareCounts(r1, r2) ==
    LET table1_count == Len(r1)
        table2_count == Len(r2)
        hash_counts1 == value_counts([i \in 1..Len(r1) |-> row_hash(UpperAll(cols1), r1[i])])
        hash_counts2 == value_counts([i \in 1..Len(r2) |-> row_hash(UpperAll(cols2), r2[i])])
        matched_rows == LocalMatched(hash_counts1, hash_counts2)
        rows_only_t1 == LocalOnlyT1(table1_count, hash_counts1, hash_counts2)
        rows_only_t2 == LocalOnlyT2(table2_count, hash_counts1, hash_counts2)
    IN  [table1_row_count |-> table1_count,
         table2_row_count |-> table2_count,
         matched_rows |-> matched_rows,
         rows_only_in_table1 |-> rows_only_t1,
         rows_only_in_table2 |-> rows_only_t2,
         match_percentage |-> MatchPct(matched_rows, table1_count + table2_count),
         is_identical |-> LocalIsIdentical(table1_count, table2_count,
                                           rows_only_t1, rows_only_t2)]

\* The counts of the comparison that returned, run on the rows r1 and r2.
CountsOn(r1, r2) ==
    IF result.comparison_mode = "hash"
    THEN HashCompareCounts(r1, r2, hc.common_cols)
    ELSE LocalCompareCounts(r1, r2)

\* The rows of s in the order p, a permutation of 1..Len(s).
Permute(s, p) == [i \in 1..Len(s) |-> s[p[i]]]

\* C13: the counts, the match percentage and is_identical a hash comparison
\* returns are those the same comparison computes on any permutation of
\* the rows of table1 and on any permutation of the rows of table2.
C13_OrderIndependence ==
    Returned =>
        /\ \A p \in Orderings(1..Len(rows1)) :
                CountsOn(Permute(rows1, p), rows2) = ResultCounts
        /\ \A q \in Orderings(1..Len(rows2)) :
                CountsOn(rows1, Permute(rows2, q)) = ResultCounts

\* Table1 holds a row, another one, then the first again, and table2 holds
\* the first row twice: two rows matched, whatever the order.
C13_Witness ==
    /\ Returned
    /\ Len(rows1) = 3
    /\ rows1[1] = rows1[3]
    /\ rows1[1] # rows1[2]
    /\ rows2 = <<rows1[1], rows1[1]>>
    /\ result.matched_rows = 2
    /\ result.rows_only_in_table1 = 1

(***************************************************************************)
(* Digests and non-participating columns                                   *)
(***************************************************************************)

\* C14: in every result the hash comparison returns, a digest depends on
\* the values of the common columns only: two rows that agree on every
\* common column have the same digest, whatever other columns their tables
\* carry, and such a pair of rows makes matched_rows positive.
C14_DigestIgnoresOtherColumns ==
    (Returned /\ CommonUpper # {}) =>
        /\ \A i \in 1..Len(rows1), j \in 1..Len(rows2) :
                SameParticipatingValues(i, j) => DigestsA[i] = DigestsB[j]
        /\ (\E i \in 1..Len(rows1), j \in 1..Len(rows2) : SameParticipatingValues(i, j))
                => result.matched_rows > 0

(***************************************************************************)
(* Samples of differing rows                                               *)
(***************************************************************************)

\* The rows of a sample DataFrame, none when the DataFrame is None.
SampleRows(df) == IF df = None THEN <<>> ELSE df[1]

Sample1 == SampleRows(result.df1_unq_rows)
Sample2 == SampleRows(result.df2_unq_rows)

\* Every sampled row is a row of its table whose digest no row of the other
\* table has.
SamplesAreSound ==
    /\ \A k \in 1..Len(Sample1) :
            /\ \E i \in 1..Len(rows1) : rows1[i] = Sample1[k]
            /\ \A j \in 1..Len(rows2) :
                    SqlRowHash(cols1, Sample1[k], hc.common_cols) # DigestsB[j]
    /\ \A k \in 1..Len(Sample2) :
            /\ \E j \in 1..Len(rows2) : rows2[j] = Sample2[k]
            /\ \A i \in 1..Len(rows1) :
                    SqlRowHash(cols2, Sample2[k], hc.common_cols) # DigestsA[i]

Absent1 == SqlNotExists(cols1, rows1, cols2, rows2, hc.common_cols)
Absent2 == SqlNotExists(cols2, rows2, cols1, rows1, hc.common_cols)

\* C16: in every result of hash_compare a sample holds no row whose digest
\* exists on the other side, so it is empty when the only-count of its side
\* comes from excess copies alone; and a sample that was fetched holds as
\* many of the rows with an absent digest as the LIMIT allows.
C16_SampleIsPresenceCheck ==
    (Returned /\ result.comparison_mode = "hash") =>
        /\ \A k \in 1..Len(Sample1) :
                CountIn(DigestsB, SqlRowHash(cols1, Sample1[k], hc.common_cols)) = 0
        /\ \A k \in 1..Len(Sample2) :
                CountIn(DigestsA, SqlRowHash(cols2, Sample2[k], hc.common_cols)) = 0
        /\ (result.rows_only_in_table1 > 0 /\ Absent1 = <<>>) => Sample1 = <<>>
        /\ (result.rows_only_in_table2 > 0 /\ Absent2 = <<>>) => Sample2 = <<>>
        /\ result.df1_unq_rows # None => Len(Sample1) = Min(Len(Absent1), SAMPLE_LIMIT)
        /\ result.df2_unq_rows # None => Len(Sample2) = Min(Len(Absent2), SAMPLE_LIMIT)

\* Table1 holds more copies of a row than table2 and nothing else differs:
\* rows_only_in_table1 is positive and the fetched sample is empty.
C16_Witness ==
    /\ Returned
    /\ result.comparison_mode = "hash"
    /\ result.rows_only_in_table1 > 0
    /\ result.matched_rows > 0
    /\ Absent1 = <<>>
    /\ result.df1_unq_rows = Some(<<>>)

(***************************************************************************)
(* Valid outcomes                                                          *)
(***************************************************************************)

\* The counts, percentage and is_identical of a result are these.
CountsAre(t1, t2, matched, only1, only2, pct, ident) ==
    ResultCounts = [table1_row_count |-> t1,
                    table2_row_count |-> t2,
                    matched_rows |-> matched,
                    rows_only_in_table1 |-> only1,
                    rows_only_in_table2 |-> only2,
                    match_percentage |-> pct,
                    is_identical |-> ident]

\* C17: when no query fails, a hash comparison of two tables with the same
\* columns returns a result without error_message, with all counts 0 for
\* two empty tables, with every row matched for two identical tables, and
\* with no row matched for two tables that have no row in common.
C17_ValidOutcomesAreNotErrors ==
    (pc = "done" /\ NoUpstreamFailure /\ cols1 = cols2) =>
        /\ (rows1 = <<>> /\ rows2 = <<>>) =>
                /\ result.error_message = "None"
                /\ CountsAre(0, 0, 0, 0, 0, <<100, 1>>, TRUE)
        /\ (rows1 = rows2 /\ rows1 # <<>>) =>
                /\ result.error_message = "None"
                /\ CountsAre(Len(rows1), Len(rows2), Len(rows1), 0, 0,
                             <<2 * Len(rows1) * 100, 2 * Len(rows1)>>, TRUE)
        /\ (rows1 # <<>> /\ rows2 # <<>> /\ Range(rows1) \cap Range(rows2) = {}) =>
                /\ result.error_message = "None"
                /\ CountsAre(Len(rows1), Len(rows2), 0, Len(rows1), Len(rows2),
                             <<0, Len(rows1) + Len(rows2)>>, FALSE)

(***************************************************************************)
(* Per-digest counts                                                       *)
(***************************************************************************)

\* The digest -> count maps of the comparison that returned.
HashCounts1 == value_counts(DigestsA)
HashCounts2 == value_counts(DigestsB)

\* C18: in every result a hash comparison returns on two tables nobody else
\* writes to, each per-digest count of a side is at least 1 and the counts
\* of a side add up to the row count the result reports for that side.
C18_HashMultisetInvariant ==
    Returned =>
        /\ \A d \in DOMAIN HashCounts1 : HashCounts1[d] >= 1
        /\ \A d \in DOMAIN HashCounts2 : HashCounts2[d] >= 1
        /\ SumOver(HashCounts1, DOMAIN HashCounts1) = result.table1_row_count
        /\ SumOver(HashCounts2, DOMAIN HashCounts2) = result.table2_row_count

\* Table1 holds a row, another one, then the first again: two digests, one
\* of them with count 2, three rows.
C18_Witness ==
    /\ Returned
    /\ result.comparison_mode = "hash"
    /\ Len(rows1) = 3
    /\ Cardinality(DOMAIN HashCounts1) = 2
    /\ DigestsA[1] = DigestsA[3]
    /\ rows2 # <<>>

(***************************************************************************)
(* The primary-key comparison of SnowparkComparer.compare                  *)
(***************************************************************************)

\* matched_rows of compare without the reset of a negative value to 0.
PkMatched_NoClamp(table1_count, table2_count, rows_only_t1, rows_only_t2) ==
    Min(table1_count, table2_count) - Max(rows_only_t1, rows_only_t2)

\* matched_rows of compare: min of the row counts minus max of the numbers
\* of unique rows, 0 when that is negative.
PkMatched(table1_count, table2_count, rows_only_t1, rows_only_t2) ==
    LET matched_rows == Min(table1_count, table2_count) - Max(rows_only_t1, rows_only_t2)
    IN  IF matched_rows < 0 THEN 0 ELSE matched_rows

\* match_pct of compare.
PkMatchPct(matched_rows, total_rows, is_identical) ==
    IF total_rows > 0 THEN <<2 * matched_rows * 100, total_rows>>
    ELSE IF is_identical THEN <<100, 1>> ELSE <<0, 1>>

\* The join columns a caller can name.
JoinColumnSets == { {"ID"}, {"V"}, {"ID", "V"} }

\* A DataFrame of n rows that datacompy reports as unique to a table; which
\* rows they are is not modelled.
UniqueRows(n) == [i \in 1..n |-> <<>>]

\* A DataFrame of unique rows as the result carries it: None when empty.
NoneIfEmpty(df) == IF df = <<>> THEN None ELSE Some(df)

\* SnowparkComparer.compare with join columns.  The comparison itself is
\* done by datacompy's SnowflakeCompare: what it reports (matches(), the
\* number of rows unique to each table) is any answer it can give about the
\* tables;
\* compare derives the counts of the result from it and from two COUNT(*)
\* queries, which give 0 and 0 when they fail.  A join column missing from a
\* table, or any exception, gives the error result.
Compare ==
    /\ pc = "idle"
    /\ \/ \E e \in ExceptionMessages :
                result' = [ErrorResult("snowpark") EXCEPT !.error_message = e]
       \/ \E join_columns \in JoinColumnSets,
             t1_columns \in {cols1, <<>>}, t2_columns \in {cols2, <<>>} :
            LET missing_in_t1 == join_columns \ UpperKeys(t1_columns)
                missing_in_t2 == join_columns \ UpperKeys(t2_columns)
            IN  IF missing_in_t1 # {} \/ missing_in_t2 # {}
                THEN result' = [ErrorResult("snowpark") EXCEPT !.error_message = "join columns not found"]
                ELSE \E n1 \in 0..Len(rows1), n2 \in 0..Len(rows2),
                        matches \in BOOLEAN, counted \in BOOLEAN :
                        LET is_identical == matches
                            df1_unq == UniqueRows(n1)
                            df2_unq == UniqueRows(n2)
                            rows_only_t1 == Len(df1_unq)
                            rows_only_t2 == Len(df2_unq)
                            table1_count == IF counted THEN Len(rows1) ELSE 0
                            table2_count == IF counted THEN Len(rows2) ELSE 0
                            matched_rows == PkMatched(table1_count, table2_count,
                                                      rows_only_t1, rows_only_t2)
                            final_is_identical ==
                                is_identical /\ df1_unq = <<>> /\ df2_unq = <<>>
                        IN  result' = ComparisonResult("snowpark", table1_count, table2_count,
                                          matched_rows, rows_only_t1, rows_only_t2,
                                          PkMatchPct(matched_rows, table1_count + table2_count,
                                                     is_identical),
                                          final_is_identical, <<>>, <<>>, "None",
                                          NoneIfEmpty(df1_unq), NoneIfEmpty(df2_unq))
    /\ pc' = "done"
    /\ UNCHANGED <<cols1, cols2, rows1, rows2, hc, writes, envVars>>

\* The hash comparisons and the primary-key comparison, on tables nobody
\* else writes to.
NextAll ==
    \/ Next
    \/ Compare

SpecAll == Init /\ [][NextAll]_vars

\* C19: in every result returned by a hash comparison or by the primary-key
\* comparison, error results included, on tables nobody else writes to, every
\* count is a non-negative integer and matched_rows is at most the smaller
\* of the two row counts.
C19_CountsNonNegative ==
    pc = "done" =>
        /\ result.table1_row_count \in Nat
        /\ result.table2_row_count \in Nat
        /\ result.matched_rows \in Nat
        /\ result.rows_only_in_table1 \in Nat
        /\ result.rows_only_in_table2 \in Nat
        /\ result.matched_rows <= Min(result.table1_row_count, result.table2_row_count)

\* The primary-key comparison of three rows against one with two rows
\* unique to table1: min(3, 1) - max(2, 0) is negative, matched_rows is 0.
C19_Witness ==
    /\ pc = "done"
    /\ result.comparison_mode = "snowpark"
    /\ result.error_message = "None"
    /\ result.table1_row_count = 3
    /\ result.table2_row_count = 1
    /\ result.rows_only_in_table1 = 2
    /\ result.matched_rows = 0

(***************************************************************************)
(* Read-only and idempotent                                                *)
(***************************************************************************)

\* The counts another run of the comparison that returned can give on the
\* same tables: hash_compare takes the common columns in the iteration
\* order of a Python set of strings, which differs from one process to
\* another.
RerunCounts ==
    IF result.comparison_mode = "hash"
    THEN { HashCompareCounts(rows1, rows2, common_cols) :
                common_cols \in Orderings(CommonCols(cols1, cols2)) }
    ELSE { LocalCompareCounts(rows1, rows2) }

\* C20, read-only: no step of a comparison changes the columns or the rows
\* of the two compared tables.
C20_ReadOnly ==
    [][pc' # "idle" => UNCHANGED <<cols1, cols2, rows1, rows2>>]_vars

\* C20: a hash comparison leaves both tables as they were, and running it
\* again on the same two tables returns the same counts, match percentage
\* and is_identical as the result it returned.
C20_ReadOnlyIdempotent ==
    Returned => \A again \in RerunCounts : again = ResultCounts

(***************************************************************************)
(* Upstream failures                                                       *)
(***************************************************************************)

\* A step of the hash comparison that returned has raised: the except
\* branch built the result, or get_table_columns of hash_compare could not
\* read the columns of a table.
RaisedUpstream ==
    /\ pc = "done"
    /\ result.comparison_mode \in {"hash", "local_hash"}
    /\ \/ result.error_message \in ExceptionMessages
       \/ /\ result.comparison_mode = "hash"
          /\ hc.t1_columns # cols1 \/ hc.t2_columns # cols2

\* C21: when a row-count, column-lookup or hash query of hash_compare, or
\* a step of _compare_hash_local, raises, the result that is returned has
\* error_message set, is_identical false and every count 0.
C21_UpstreamFailureIsOpaque ==
    RaisedUpstream =>
        /\ result.error_message # "None"
        /\ ~result.is_identical
        /\ result.table1_row_count = 0
        /\ result.table2_row_count = 0
        /\ result.matched_rows = 0
        /\ result.rows_only_in_table1 = 0
        /\ result.rows_only_in_table2 = 0

(***************************************************************************)
(* The single-comparison command lines                                     *)
(***************************************************************************)

\* `if result.error_message:` - None and the empty string are both false.
Truthy(error_message) == error_message # "None" /\ error_message # ""

\* The names a `from snowflake_compare import ...` can find: the classes,
\* functions and module-level names of snowflake_compare.py.
SnowflakeCompareNames ==
    { "ComparisonResult", "DiagnosticResult", "LocalFileComparer", "SnowparkComparer",
      "SnowflakeDataComparer", "SNOWPARK_AVAILABLE", "SNOWPARK_ERROR_MESSAGE",
      "SNOWFLAKE_CONNECTOR_AVAILABLE", "SNOWFLAKE_CONNECTOR_ERROR_MESSAGE",
      "check_snowpark", "compare_tables", "get_availability_status", "quick_compare" }

\* from snowflake_compare import SnowflakeTableComparer, ComparisonResult
MainImports == { "SnowflakeTableComparer", "ComparisonResult" }

\* The sys.exit of main.py after compare_tables returned.
MainExitCode(r) ==
    IF Truthy(r.error_message) THEN 2
    ELSE IF r.is_identical THEN 0
    ELSE 1

\* The sys.exit of the compare command of run_comparison.py.
CompareExitCode(r) ==
    IF Truthy(r.error_message) THEN 2
    ELSE IF ~r.is_identical THEN 1
    ELSE 0

\* LocalFileComparer.compare with join columns.  datacompy's Compare joins
\* the two DataFrames: a row is in the intersection or unique to its side,
\* and some of the joined rows match on every column.
CompareLocal ==
    /\ pc = "idle"
    /\ \E intersect_count \in 0..Min(Len(rows1), Len(rows2)), matches \in BOOLEAN :
        \E matched_rows \in 0..intersect_count :
            LET table1_count == Len(rows1)
                table2_count == Len(rows2)
            IN  result' = ComparisonResult("local", table1_count, table2_count,
                              matched_rows, table1_count - intersect_count,
                              table2_count - intersect_count,
                              MatchPct(matched_rows, table1_count + table2_count),
                              matches, <<>>, <<>>, "None", None, None)
    /\ pc' = "done"
    /\ UNCHANGED <<cols1, cols2, rows1, rows2, hc, writes, envVars>>

\* python main.py: the module cannot be loaded when a name it imports is
\* missing, and the interpreter ends with status 1 on the ImportError;
\* otherwise main() exits on the result of compare_tables.
MainCli ==
    /\ cli = NoExit
    /\ IF MainImports \subseteq SnowflakeCompareNames
       THEN /\ pc = "done"
            /\ cli' = [command |-> "main", outcome |-> "result",
                       exit_code |-> MainExitCode(result)]
       ELSE /\ pc = "idle"
            /\ cli' = [command |-> "main", outcome |-> "exception", exit_code |-> 1]
    /\ pc' = "exited"
    /\ UNCHANGED <<cols1, cols2, rows1, rows2, hc, result, writes, batch, yaml, sess, copy>>

\* run_comparison.py compare, after comparer.compare returned: the result
\* is printed and exported, which can raise, and the process exits.
RunComparisonCli ==
    /\ cli = NoExit
    /\ pc = "done"
    /\ result.comparison_mode \in {"snowpark", "local", "local_hash"}
    /\ \/ cli' = [command |-> "compare", outcome |-> "result",
                  exit_code |-> CompareExitCode(result)]
       \/ cli' = [command |-> "compare", outcome |-> "exception", exit_code |-> 2]
    /\ pc' = "exited"
    /\ UNCHANGED <<cols1, cols2, rows1, rows2, hc, result, writes, batch, yaml, sess, copy>>

\* run_comparison.py compare before any comparison: get_comparer exits with
\* 2 when Snowpark is asked for and not available, and an exception of
\* get_comparer or of the connect() of `with comparer` exits with 2.
RunComparisonNoResult ==
    /\ cli = NoExit
    /\ pc = "idle"
    /\ \E outcome \in {"unavailable", "exception"} :
            cli' = [command |-> "compare", outcome |-> outcome, exit_code |-> 2]
    /\ pc' = "exited"
    /\ UNCHANGED <<cols1, cols2, rows1, rows2, hc, result, writes, batch, yaml, sess, copy>>

\* The comparisons the two command lines run, and their exits.
NextCli ==
    \/ LoadRow1
    \/ LoadRow2
    \/ Compare
    \/ CompareLocal
    \/ CompareHashLocal
    \/ LoadFileRaise
    \/ CompareHashLocalRaise
    \/ MainCli
    \/ RunComparisonCli
    \/ RunComparisonNoResult

SpecCli == Init /\ [][NextCli]_vars

\* C22: a single-comparison command line that ends on a result or on an
\* exception exits with 2 when an exception occurred or the result carries
\* an error_message, and otherwise with 0 when the result is_identical and
\* with 1 when it is not.
C22_ExitCodeContract ==
    (pc = "exited" /\ cli.outcome \in {"result", "exception"}) =>
        cli.exit_code =
            IF cli.outcome = "exception" \/ result.error_message # "None" THEN 2
            ELSE IF result.is_identical THEN 0
            ELSE 1

\* C22 for the compare command alone.
C22_ExitCodeContractCompare ==
    cli.command = "compare" => C22_ExitCodeContract

(***************************************************************************)
(* Column mismatch                                                         *)
(***************************************************************************)

\* C23: every result hash_compare returns for two tables of which one has
\* a column the other lacks (names compared without case) has is_identical
\* false, whatever its counts are.
C23_ColumnMismatchNotIdentical ==
    (Returned /\ result.comparison_mode = "hash" /\ UpperKeys(cols1) # UpperKeys(cols2)) =>
        /\ ~result.is_identical
        /\ Len(result.columns_only_in_table1) + Len(result.columns_only_in_table2) > 0

\* Table1 has a column more than table2 and the rows agree on the common
\* column: equal counts, nothing only on one side, 100 percent, and not
\* identical.
C23_Witness ==
    /\ Returned
    /\ result.comparison_mode = "hash"
    /\ UpperKeys(cols1) # UpperKeys(cols2)
    /\ result.table1_row_count = 2
    /\ result.table2_row_count = 2
    /\ result.rows_only_in_table1 = 0
    /\ result.rows_only_in_table2 = 0
    /\ result.match_percentage = <<400, 4>>
    /\ ~result.is_identical

(***************************************************************************)
(* No common columns                                                       *)
(***************************************************************************)

\* C24: when the two tables have no column in common, the step of
\* hash_compare that reads the columns returns at once, without a hash
\* query, a result with error_message set, matched_rows 0, every row of
\* each table counted as only in that table, match_percentage 0 and
\* is_identical false, also when both tables are empty.
C24_NoCommonColumns ==
    [][(pc = "hc_columns" /\ CommonUpper = {}) =>
            /\ pc' = "done"
            /\ result'.error_message = "No common columns found between tables"
            /\ result'.matched_rows = 0
            /\ result'.table1_row_count = Len(rows1)
            /\ result'.table2_row_count = Len(rows2)
            /\ result'.rows_only_in_table1 = result'.table1_row_count
            /\ result'.rows_only_in_table2 = result'.table2_row_count
            /\ result'.match_percentage = <<0, 1>>
            /\ ~result'.is_identical]_vars

\* Two empty tables without a common column: the error result, 0 percent.
C24_Witness ==
    /\ pc = "done"
    /\ result.comparison_mode = "hash"
    /\ CommonUpper = {}
    /\ hc.t1_columns = cols1
    /\ hc.t2_columns = cols2
    /\ rows1 = <<>>
    /\ rows2 = <<>>
    /\ result.error_message = "No common columns found between tables"
    /\ result.match_percentage = <<0, 1>>
    /\ ~result.is_identical

(***************************************************************************)
(* Concurrent writer                                                       *)
(***************************************************************************)

\* C25: a result hash_compare returns after another session wrote to one of
\* the tables during the comparison still has matched_rows plus the rows
\* only in a table equal to the row count reported for that table.
C25_ConsistentSnapshot ==
    (Returned /\ result.comparison_mode = "hash" /\ writes > 0) =>
        /\ result.matched_rows + result.rows_only_in_table1 = result.table1_row_count
        /\ result.matched_rows + result.rows_only_in_table2 = result.table2_row_count

(***************************************************************************)
(* Batch runs: BatchComparer.run_batch and TableCopier.run_batch           *)
(***************************************************************************)
MaxMappings == 3    \* table mappings of one batch

\* What a ComparisonResult tells run_batch: its error_message and its
\* is_identical.  Every error result of the comparers has is_identical False.
RunComparisonOutcomes ==
    { [error_message |-> "None", is_identical |-> b] : b \in BOOLEAN } \cup
    { [error_message |-> e, is_identical |-> FALSE] :
        e \in ExceptionMessages \cup { "No common columns found between tables" } }

\* What copy_table meets: whether connect() gives a session, whether the
\* source can be selected from, whether the target is there, whether the
\* INFORMATION_SCHEMA lookup, the DROP and the CTAS run through.
CopyEnvironments ==
    [connect_ok : BOOLEAN, source_ok : BOOLEAN, target_there : BOOLEAN,
     lookup_ok : BOOLEAN, drop_ok : BOOLEAN, ctas_ok : BOOLEAN]

\* _source_exists: True when SELECT 1 FROM source LIMIT 0 runs through.
SourceExists_Always(e) == TRUE

SourceExists(e) == e.source_ok

\* _table_exists: the count of the lookup, and False when the lookup raises.
TableExists(e) == e.lookup_ok /\ e.target_there

\* The CTAS of copy_table after the statements already issued: CREATE OR
\* REPLACE TABLE, or a plain CREATE TABLE that fails on a table that is there.
Ctas(use_or_replace, e, issued, there) ==
    LET sql == IF use_or_replace THEN "CREATE OR REPLACE TABLE" ELSE "CREATE TABLE"
        ran == e.ctas_ok /\ (use_or_replace \/ ~there)
    IN  [status |-> IF ran THEN "success" ELSE "failed",
         statements |-> Append(issued, sql), raised |-> FALSE]

\* copy_table: the status it leaves on the mapping and the statements it
\* sent against the target; raised when connect() fails before the try.
CopyTableOutcome(drop_existing, use_or_replace, e) ==
    IF ~e.connect_ok
    THEN [status |-> "pending", statements |-> <<>>, raised |-> TRUE]
    ELSE IF ~SourceExists(e)
    THEN [status |-> "failed", statements |-> <<>>, raised |-> FALSE]
    ELSE IF TableExists(e) /\ drop_existing
    THEN IF e.drop_ok
         THEN Ctas(use_or_replace, e, << "DROP TABLE IF EXISTS" >>, FALSE)
         ELSE [status |-> "failed", statements |-> << "DROP TABLE IF EXISTS" >>,
               raised |-> FALSE]
    ELSE IF TableExists(e) /\ ~use_or_replace
    THEN [status |-> "skipped", statements |-> <<>>, raised |-> FALSE]
    ELSE Ctas(use_or_replace, e, <<>>, e.target_there)

\* batch_result.results.append({...}) for the mapping of this iteration.
BatchAppend_NoAppend(b, status, is_identical) == [b EXCEPT !.i = @ + 1]

BatchAppend(b, status, is_identical) ==
    [b EXCEPT !.i = @ + 1,
              !.results = Append(@, [mapping |-> b.i + 1, status |-> status,
                                     is_identical |-> is_identical])]

\* run_batch is called with a list of mappings: BatchResult(total_tables=len).
RunBatchStart ==
    /\ batch.pc = "idle"
    /\ \E kind \in {"compare", "copy"}, n \in 0..MaxMappings, coe \in BOOLEAN :
        batch' = [BatchIdle EXCEPT !.kind = kind, !.pc = "running",
                                   !.total_tables = n, !.continue_on_error = coe]
    /\ UNCHANGED <<cols1, cols2, rows1, rows2, pc, hc, result, writes, cli, yaml, sess, copy>>

\* An exception outside the try of the loop body (progress_callback, or the
\* SHOW TABLES of resolve_table_path) leaves run_batch.
RunBatchRaiseOutside ==
    /\ batch.pc = "running"
    /\ batch.i < batch.total_tables
    /\ batch' = [batch EXCEPT !.pc = "raised"]
    /\ UNCHANGED <<cols1, cols2, rows1, rows2, pc, hc, result, writes, cli, yaml, sess, copy>>

\* BatchComparer.run_batch, a mapping one of whose tables is not resolved.
BatchCompareSkip ==
    /\ batch.pc = "running"
    /\ batch.kind = "compare"
    /\ batch.i < batch.total_tables
    /\ \E sas_full_path \in BOOLEAN, snowflake_full_path \in BOOLEAN :
        /\ ~sas_full_path \/ ~snowflake_full_path
        /\ batch' = BatchAppend([batch EXCEPT !.skipped = @ + 1], "skipped", FALSE)
    /\ UNCHANGED <<cols1, cols2, rows1, rows2, pc, hc, result, writes, cli, yaml, sess, copy>>

\* BatchComparer.run_batch, a resolved mapping whose run_comparison returns.
BatchCompareResult ==
    /\ batch.pc = "running"
    /\ batch.kind = "compare"
    /\ batch.i < batch.total_tables
    /\ \E r \in RunComparisonOutcomes :
        batch' =
            IF Truthy(r.error_message)
            THEN BatchAppend([batch EXCEPT !.failed = @ + 1], "error", r.is_identical)
            ELSE IF r.is_identical
            THEN BatchAppend([batch EXCEPT !.successful = @ + 1, !.identical = @ + 1],
                             "success", r.is_identical)
            ELSE BatchAppend([batch EXCEPT !.successful = @ + 1, !.different = @ + 1],
                             "success", r.is_identical)
    /\ UNCHANGED <<cols1, cols2, rows1, rows2, pc, hc, result, writes, cli, yaml, sess, copy>>

\* The except branch of both loops: the mapping failed; the exception is
\* raised again unless continue_on_error, and the entry appended otherwise.
RunBatchExcept(b, failed_status) ==
    IF b.continue_on_error
    THEN BatchAppend([b EXCEPT !.failed = @ + 1], failed_status, FALSE)
    ELSE [b EXCEPT !.failed = @ + 1, !.pc = "raised"]

\* BatchComparer.run_batch, a resolved mapping whose run_comparison raises.
BatchCompareRaise ==
    /\ batch.pc = "running"
    /\ batch.kind = "compare"
    /\ batch.i < batch.total_tables
    /\ batch' = RunBatchExcept(batch, "error")
    /\ UNCHANGED <<cols1, cols2, rows1, rows2, pc, hc, result, writes, cli, yaml, sess, copy>>

\* TableCopier.run_batch, one mapping: copy_table and the count of its status.
BatchCopyStep ==
    /\ batch.pc = "running"
    /\ batch.kind = "copy"
    /\ batch.i < batch.total_tables
    /\ \E drop_existing \in BOOLEAN, use_or_replace \in BOOLEAN, e \in CopyEnvironments :
        LET mapping == CopyTableOutcome(drop_existing, use_or_replace, e)
        IN  batch' =
                IF mapping.raised THEN RunBatchExcept(batch, "failed")
                ELSE IF mapping.status = "success"
                THEN BatchAppend([batch EXCEPT !.successful = @ + 1], "success", FALSE)
                ELSE IF mapping.status = "skipped"
                THEN BatchAppend([batch EXCEPT !.skipped = @ + 1], "skipped", FALSE)
                ELSE BatchAppend([batch EXCEPT !.failed = @ + 1], mapping.status, FALSE)
    /\ UNCHANGED <<cols1, cols2, rows1, rows2, pc, hc, result, writes, cli, yaml, sess, copy>>

\* The loop is over: run_batch returns the BatchResult.
RunBatchReturn ==
    /\ batch.pc = "running"
    /\ batch.i = batch.total_tables
    /\ batch' = [batch EXCEPT !.pc = "returned"]
    /\ UNCHANGED <<cols1, cols2, rows1, rows2, pc, hc, result, writes, cli, yaml, sess, copy>>

\* The sys.exit of batch_compare.py main after run_batch and export_results.
BatchExitCode(r) ==
    IF r.failed > 0 THEN 2
    ELSE IF r.different > 0 THEN 1
    ELSE 0

\* batch_compare.py main after run_batch: the results are exported, which
\* can raise, and the process exits on the counters; an exception that left
\* run_batch exits with 2.
BatchMainExit ==
    /\ batch.kind = "compare"
    /\ batch.total_tables > 0
    /\ \/ /\ batch.pc = "returned"
          /\ \E exported \in BOOLEAN :
                batch' = [batch EXCEPT !.pc = "exited",
                            !.exit_code = IF exported THEN BatchExitCode(batch) ELSE 2]
       \/ /\ batch.pc = "raised"
          /\ batch' = [batch EXCEPT !.pc = "exited", !.exit_code = 2]
    /\ UNCHANGED <<cols1, cols2, rows1, rows2, pc, hc, result, writes, cli, yaml, sess, copy>>

\* batch_compare.py main before run_batch: exit 2 without Snowpark or when
\* the input cannot be read, exit 1 when the input holds no mapping.
BatchMainNoBatch ==
    /\ batch.pc = "idle"
    /\ \E code \in {1, 2} :
        batch' = [batch EXCEPT !.kind = "compare", !.pc = "exited", !.exit_code = code]
    /\ UNCHANGED <<cols1, cols2, rows1, rows2, pc, hc, result, writes, cli, yaml, sess, copy>>

NextBatch ==
    \/ RunBatchStart
    \/ RunBatchRaiseOutside
    \/ BatchCompareSkip
    \/ BatchCompareResult
    \/ BatchCompareRaise
    \/ BatchCopyStep
    \/ RunBatchReturn
    \/ BatchMainExit
    \/ BatchMainNoBatch

SpecBatch == Init /\ [][NextBatch]_vars

\* The entries of the results list with one of the given statuses.
CountStatus(statuses) ==
    Cardinality({ k \in 1..Len(batch.results) : batch.results[k].status \in statuses })

\* C26: when run_batch returns with continue_on_error, every mapping has been
\* classified exactly once: the results list has one entry per mapping in
\* input order, each counter is the number of entries of its class, the
\* three classes add up to total_tables, and for BatchComparer identical
\* plus different is successful.
C26_BatchAccounting ==
    (batch.pc = "returned" /\ batch.continue_on_error) =>
        /\ Len(batch.results) = batch.total_tables
        /\ \A k \in 1..Len(batch.results) : batch.results[k].mapping = k
        /\ batch.successful = CountStatus({"success"})
        /\ batch.failed = CountStatus({"error", "failed"})
        /\ batch.skipped = CountStatus({"skipped"})
        /\ batch.successful + batch.failed + batch.skipped = batch.total_tables
        /\ batch.kind = "compare" => batch.identical + batch.different = batch.successful

\* A batch of every kind of mapping has returned.
C26_Witness ==
    /\ batch.pc = "returned"
    /\ batch.continue_on_error
    /\ batch.total_tables = MaxMappings
    /\ batch.successful > 0
    /\ batch.failed > 0
    /\ batch.skipped > 0

\* C27: batch_compare.py exits with 0 only if every mapping of the input was
\* compared and found identical.
C27_ExitZeroMeansAllIdentical ==
    (batch.pc = "exited" /\ batch.kind = "compare" /\ batch.exit_code = 0) =>
        /\ batch.identical = batch.total_tables
        /\ batch.skipped = 0

(***************************************************************************)
(* The batch command of run_comparison.py                                  *)
(***************************************************************************)

\* The config file is loaded: without comparisons the command exits with 1,
\* otherwise the loop starts with results = [], errors = 0, differences = 0.
YamlStart ==
    /\ yaml.pc = "idle"
    /\ \E n \in 0..MaxMappings :
        yaml' = IF n = 0
                THEN [YamlIdle EXCEPT !.pc = "exited", !.exit_code = 1]
                ELSE [YamlIdle EXCEPT !.pc = "running", !.comparisons = n]
    /\ UNCHANGED <<cols1, cols2, rows1, rows2, pc, hc, result, writes, cli, batch, sess, copy>>

\* A comparison without table1 or table2 is skipped.
YamlSkip ==
    /\ yaml.pc = "running"
    /\ yaml.i < yaml.comparisons
    /\ yaml' = [yaml EXCEPT !.i = @ + 1]
    /\ UNCHANGED <<cols1, cols2, rows1, rows2, pc, hc, result, writes, cli, batch, sess, copy>>

\* comparer.compare returned: the result is collected, then counted as an
\* error, as identical or as a difference.
YamlResult ==
    /\ yaml.pc = "running"
    /\ yaml.i < yaml.comparisons
    /\ \E r \in RunComparisonOutcomes :
        yaml' = [yaml EXCEPT
                    !.i = @ + 1,
                    !.results = Append(@, r),
                    !.errors = IF Truthy(r.error_message) THEN @ + 1 ELSE @,
                    !.differences = IF ~Truthy(r.error_message) /\ ~r.is_identical
                                    THEN @ + 1 ELSE @]
    /\ UNCHANGED <<cols1, cols2, rows1, rows2, pc, hc, result, writes, cli, batch, sess, copy>>

\* get_comparer, the connect() of `with comparer` or compare raised: the
\* except branch counts an error and collects nothing.
YamlRaise ==
    /\ yaml.pc = "running"
    /\ yaml.i < yaml.comparisons
    /\ yaml' = [yaml EXCEPT !.i = @ + 1, !.errors = @ + 1]
    /\ UNCHANGED <<cols1, cols2, rows1, rows2, pc, hc, result, writes, cli, batch, sess, copy>>

\* get_comparer calls sys.exit(2) when Snowpark is needed and not available:
\* SystemExit is no Exception and ends the command without a summary.
YamlGetComparerExit ==
    /\ yaml.pc = "running"
    /\ yaml.i < yaml.comparisons
    /\ yaml' = [yaml EXCEPT !.pc = "exited", !.exit_code = 2]
    /\ UNCHANGED <<cols1, cols2, rows1, rows2, pc, hc, result, writes, cli, batch, sess, copy>>

\* click.echo(f"Identical: {len(results) - differences - errors}")
IdenticalPrinted(results, differences, errors) == Len(results) - differences - errors

\* After the loop: the summary is printed and the command exits on the counters.
YamlSummary ==
    /\ yaml.pc = "running"
    /\ yaml.i = yaml.comparisons
    /\ yaml' = [yaml EXCEPT
                    !.pc = "exited",
                    !.summary = TRUE,
                    !.identical_printed =
                        IdenticalPrinted(yaml.results, yaml.differences, yaml.errors),
                    !.exit_code = IF yaml.errors > 0 THEN 2
                                  ELSE IF yaml.differences > 0 THEN 1
                                  ELSE 0]
    /\ UNCHANGED <<cols1, cols2, rows1, rows2, pc, hc, result, writes, cli, batch, sess, copy>>

NextYaml ==
    \/ YamlStart
    \/ YamlSkip
    \/ YamlResult
    \/ YamlRaise
    \/ YamlGetComparerExit
    \/ YamlSummary

SpecYaml == Init /\ [][NextYaml]_vars

\* C28: the Identical count printed by the batch command is never negative
\* and is the number of collected results that are error-free and identical.
C28_IdenticalCount ==
    yaml.summary =>
        /\ yaml.identical_printed >= 0
        /\ yaml.identical_printed =
              Cardinality({ k \in 1..Len(yaml.results) :
                  yaml.results[k].error_message = "None" /\ yaml.results[k].is_identical })

(***************************************************************************)
(* Session lifecycle of SnowparkComparer, BatchComparer and TableCopier    *)
(***************************************************************************)
MaxSessions == 3    \* sessions one object creates, and nested with-blocks

\* The classes that hold a Snowpark session (BatchComparer through the
\* SnowparkComparer it owns).
SessionHolders == { "SnowparkComparer", "BatchComparer", "TableCopier" }

\* close() of SnowparkComparer wraps self._session.close() in try / except;
\* close() of TableCopier calls it bare.
CloseIsGuarded(class) == class # "TableCopier"

\* connect(): a session is created only when self._session is None, and
\* stays None when Session.builder...create() raises.
Connected(s, op, create_ok) ==
    IF s.session # 0
    THEN [s EXCEPT !.last = op, !.before = s.session, !.raised = FALSE]
    ELSE IF create_ok
    THEN [s EXCEPT !.last = op, !.before = 0, !.raised = FALSE,
                   !.created = @ + 1, !.session = s.created + 1]
    ELSE [s EXCEPT !.last = op, !.before = 0, !.raised = TRUE]

\* close(): nothing without a session; otherwise the session is closed and
\* the attribute reset, unless an unguarded session.close() raises first.
Closed(s, op, close_ok) ==
    IF s.session = 0
    THEN [s EXCEPT !.last = op, !.before = 0, !.raised = FALSE]
    ELSE IF close_ok \/ CloseIsGuarded(s.class)
    THEN [s EXCEPT !.last = op, !.before = s.session, !.raised = FALSE, !.session = 0]
    ELSE [s EXCEPT !.last = op, !.before = s.session, !.raised = TRUE]

\* __init__: the object starts with _session = None.
Construct ==
    /\ sess.class = "none"
    /\ \E class \in SessionHolders : sess' = [NoObject EXCEPT !.class = class]
    /\ UNCHANGED <<cols1, cols2, rows1, rows2, pc, hc, result, writes, cli, batch, yaml, copy>>

Connect ==
    /\ sess.class # "none"
    /\ sess.created < MaxSessions
    /\ \E create_ok \in BOOLEAN : sess' = Connected(sess, "connect", create_ok)
    /\ UNCHANGED <<cols1, cols2, rows1, rows2, pc, hc, result, writes, cli, batch, yaml, copy>>

Close ==
    /\ sess.class # "none"
    /\ \E close_ok \in BOOLEAN : sess' = Closed(sess, "close", close_ok)
    /\ UNCHANGED <<cols1, cols2, rows1, rows2, pc, hc, result, writes, cli, batch, yaml, copy>>

\* __enter__: connect(); the block is entered when connect() returned.
Enter ==
    /\ sess.class # "none"
    /\ sess.created < MaxSessions
    /\ sess.depth < MaxSessions
    /\ \E create_ok \in BOOLEAN :
        LET s == Connected(sess, "enter", create_ok)
        IN  sess' = IF s.raised THEN s ELSE [s EXCEPT !.depth = @ + 1]
    /\ UNCHANGED <<cols1, cols2, rows1, rows2, pc, hc, result, writes, cli, batch, yaml, copy>>

\* __exit__: close(), whether the block ended normally or on an exception.
Exit ==
    /\ sess.depth > 0
    /\ \E close_ok \in BOOLEAN :
        sess' = [Closed(sess, "exit", close_ok) EXCEPT !.depth = @ - 1]
    /\ UNCHANGED <<cols1, cols2, rows1, rows2, pc, hc, result, writes, cli, batch, yaml, copy>>

NextSession ==
    \/ Construct
    \/ Connect
    \/ Close
    \/ Enter
    \/ Exit

SpecSession == Init /\ [][NextSession]_vars

\* C29: connect() (and with-block entry) with a session held returns that
\* session and creates none, so at most one session per object is held at
\* any time; after close() or after leaving a with-block no session is
\* held, even if closing the underlying session raised.
C29_SessionLifecycle ==
    /\ (sess.last \in {"connect", "enter"} /\ sess.before # 0) =>
            sess.session = sess.before
    /\ sess.session # 0 => sess.session = sess.created
    /\ sess.last \in {"close", "exit"} => sess.session = 0

(***************************************************************************)
(* TableCopier.copy_table                                                  *)
(***************************************************************************)

\* One call of copy_table under some configuration and some environment.
CopyTable ==
    /\ copy.pc = "idle"
    /\ \E drop_existing \in BOOLEAN, use_or_replace \in BOOLEAN, e \in CopyEnvironments :
        LET mapping == CopyTableOutcome(drop_existing, use_or_replace, e)
        IN  copy' = [pc |-> IF mapping.raised THEN "raised" ELSE "returned",
                     drop_existing |-> drop_existing, use_or_replace |-> use_or_replace,
                     env |-> e, statements |-> mapping.statements,
                     status |-> mapping.status]
    /\ UNCHANGED <<cols1, cols2, rows1, rows2, pc, hc, result, writes, cli, batch, yaml, sess>>

\* The copier is used for the next mapping.
CopyNext ==
    /\ copy.pc \in {"returned", "raised"}
    /\ copy' = CopyIdle
    /\ UNCHANGED <<cols1, cols2, rows1, rows2, pc, hc, result, writes, cli, batch, yaml, sess>>

NextCopy ==
    \/ CopyTable
    \/ CopyNext

SpecCopy == Init /\ [][NextCopy]_vars

\* The CTAS and DROP statements copy_table sent against the target.
CtasIssued ==
    Cardinality({ k \in 1..Len(copy.statements) :
        copy.statements[k] \in {"CREATE OR REPLACE TABLE", "CREATE TABLE"} })

DropIssued ==
    Cardinality({ k \in 1..Len(copy.statements) :
        copy.statements[k] = "DROP TABLE IF EXISTS" })

CopyCalled == copy.pc \in {"returned", "raised"}

====
